---------------------------- MODULE Spec2Model ----------------------------
(***************************************************************************)
(* A model of src/utils.ts of web3-providers-connex: the block-number      *)
(* parser, the log-filter criteria builder, the revert-reason codec, the   *)
(* error-message extractor and the transaction signer.                     *)
(*                                                                         *)
(* JavaScript values are tagged records; a JavaScript string is the        *)
(* sequence of its characters, each a one-character TLA+ string.           *)
(***************************************************************************)
EXTENDS Integers, Sequences, FiniteSets, TLC

VARIABLES
    arg,        \* the argument of the pure function under call
    ret,        \* its completion: not called, a returned value or a throw
    pc,         \* signTransaction: the position of the async function
    ethTx,      \* signTransaction: the TxObj argument
    wallet,     \* signTransaction: wallet.list, a sequence of signer names
    chainTag,   \* signTransaction: provider.chainTag
    requests,   \* signTransaction: the provider requests issued so far
    signCalls,  \* signTransaction: the signers invoked so far, with digests
    gas,        \* signTransaction: the local `gas`
    best,       \* signTransaction: the local `best`
    tx,         \* signTransaction: the local `tx`, the transaction built
    responses,  \* signTransaction: the provider's answers so far
    settled     \* signTransaction: how the returned promise settled

vars == <<arg, ret, pc, ethTx, wallet, chainTag, requests, signCalls, gas,
          best, tx, responses, settled>>

signVars == <<pc, ethTx, wallet, chainTag, requests, signCalls, gas, best,
              tx, responses, settled>>

-----------------------------------------------------------------------------
(* JavaScript values *)

Undefined == [t |-> "undefined"]

Null == [t |-> "null"]

Str(s) == [t |-> "string", v |-> s]

Num(n) == [t |-> "number", v |-> n]

Arr(a) == [t |-> "array", v |-> a]

Obj(o) == [t |-> "object", v |-> o]

\* ToBoolean: undefined, null, "" and 0 are falsy; arrays and objects truthy
Truthy(x) ==
    CASE x.t = "undefined" -> FALSE
      [] x.t = "null" -> FALSE
      [] x.t = "string" -> x.v # <<>>
      [] x.t = "number" -> x.v # 0
      [] OTHER -> TRUE

IsArray(x) == x.t = "array"

\* x[i] for a zero-based index i: an element of an array, a character of a
\* string, undefined out of range
Index(x, i) ==
    CASE x.t = "array" -> IF i < Len(x.v) THEN x.v[i + 1] ELSE Undefined
      [] x.t = "string" -> IF i < Len(x.v) THEN Str(<<x.v[i + 1]>>) ELSE Undefined
      [] OTHER -> Undefined

\* x.length
Length(x) == IF x.t \in {"array", "string"} THEN Num(Len(x.v)) ELSE Undefined

\* the completion of a call
NotCalled == [kind |-> "none"]

Return(v) == [kind |-> "return", value |-> v]

Throw(e) == [kind |-> "throw", error |-> e]

TypeError == <<"T", "y", "p", "e", "E", "r", "r", "o", "r">>

-----------------------------------------------------------------------------
(* strings *)

RECURSIVE Rep(_, _)
\* n copies of the character c
Rep(c, n) == IF n <= 0 THEN <<>> ELSE <<c>> \o Rep(c, n - 1)

\* the strings over alphabet A of length at most n
StringsUpTo(A, n) == UNION {[1..k -> A] : k \in 0..n}

\* String.prototype.startsWith
StartsWith(s, p) == Len(s) >= Len(p) /\ SubSeq(s, 1, Len(p)) = p

\* String.prototype.slice(from) for 0 <= from
Slice(s, from) == SubSeq(s, from + 1, Len(s))

\* String.prototype.slice(from, to) for 0 <= from <= to
Slice2(s, from, to) ==
    SubSeq(s, from + 1, IF to < Len(s) THEN to ELSE Len(s))

LowerCaseChar(c) ==
    CASE c = "A" -> "a" [] c = "B" -> "b" [] c = "C" -> "c"
      [] c = "D" -> "d" [] c = "E" -> "e" [] c = "F" -> "f"
      [] c = "X" -> "x" [] OTHER -> c

\* String.prototype.toLowerCase
ToLowerCase(s) == [i \in 1..Len(s) |-> LowerCaseChar(s[i])]

HexChars == <<"0", "1", "2", "3", "4", "5", "6", "7", "8", "9",
              "a", "b", "c", "d", "e", "f">>

IsHexChar(c) == \E i \in 1..16 : HexChars[i] = LowerCaseChar(c)

HexCharValue(c) == (CHOOSE i \in 1..16 : HexChars[i] = LowerCaseChar(c)) - 1

RECURSIVE HexDigitsValue(_)
\* the number a string of hex digits denotes
HexDigitsValue(d) ==
    IF d = <<>> THEN 0
    ELSE 16 * HexDigitsValue(SubSeq(d, 1, Len(d) - 1)) + HexCharValue(d[Len(d)])

RECURSIVE StripZeros(_)
\* a digit string without its leading zeros
StripZeros(d) == IF d # <<>> /\ d[1] = "0" THEN StripZeros(Slice(d, 1)) ELSE d

RECURSIVE NatToHex(_)
\* the hex digits of a natural number, none for 0
NatToHex(n) ==
    IF n = 0 THEN <<>> ELSE NatToHex(n \div 16) \o <<HexChars[(n % 16) + 1]>>

\* web3Utils.isHexStrict on a string: /^(-)?0x[0-9a-f]*$/i
IsHexStrict(s) ==
    LET body == IF s # <<>> /\ s[1] = "-" THEN Slice(s, 1) ELSE s
    IN  /\ Len(body) >= 2
        /\ body[1] = "0"
        /\ body[2] = "x"
        /\ \A i \in 3..Len(body) : IsHexChar(body[i])

\* web3Utils.hexToNumber on a strictly-formed hex string whose value is a
\* JavaScript safe integer (the inputs below keep at most MaxTail
\* significant digits; larger values are outside this model)
HexToNumber(s) ==
    IF s[1] = "-" THEN 0 - HexDigitsValue(Slice(s, 3))
    ELSE HexDigitsValue(Slice(s, 2))

-----------------------------------------------------------------------------
(* parseBlockNumber *)

BlockIdLen == 66

Earliest == <<"e", "a", "r", "l", "i", "e", "s", "t">>

Latest == <<"l", "a", "t", "e", "s", "t">>

\* a plausible slip: the number conversion is tried before the block id
parseBlockNumber_NumberFirst(input) ==
    IF IsHexStrict(input) THEN Num(HexToNumber(input))
    ELSE IF input = Earliest THEN Num(0)
    ELSE IF input = Latest THEN Undefined
    ELSE Null

parseBlockNumber(input) ==
    IF IsHexStrict(input) /\ Len(input) = BlockIdLen THEN Str(input)
    ELSE IF IsHexStrict(input) THEN Num(HexToNumber(input))
    ELSE IF input = Earliest THEN Num(0)
    ELSE IF input = Latest THEN Undefined
    ELSE Null


-----------------------------------------------------------------------------
(* the state of a specification that does not run signTransaction *)

SignIdle ==
    /\ pc = "idle"
    /\ ethTx = Undefined
    /\ wallet = <<>>
    /\ chainTag = 0
    /\ requests = <<>>
    /\ signCalls = <<>>
    /\ gas = Undefined
    /\ best = Undefined
    /\ tx = Undefined
    /\ responses = <<>>
    /\ settled = NotCalled

-----------------------------------------------------------------------------
(* parseBlockNumber called on every input of a bounded set *)

MaxTail == 2

BlockAlphabet == {"0", "1", "f", "F", "g"}

BlockPrefixes == {<<>>, <<"0", "x">>, <<"-", "0", "x">>, <<"0", "X">>, <<"x">>}

BlockPadLens == {0} \cup ((BlockIdLen - 3 - MaxTail)..(BlockIdLen - 2))

BlockInputs ==
    {Earliest, Latest, <<"p", "e", "n", "d", "i", "n", "g">>,
     <<"L", "a", "t", "e", "s", "t">>, Latest \o <<"0">>}
    \cup {p \o Rep("0", n) \o tl :
            p \in BlockPrefixes, n \in BlockPadLens,
            tl \in StringsUpTo(BlockAlphabet, MaxTail)}

InitBlock == arg \in {Str(s) : s \in BlockInputs} /\ ret = NotCalled /\ SignIdle

ParseBlockNumber ==
    /\ pc = "idle"
    /\ ret = NotCalled
    /\ ret' = Return(parseBlockNumber(arg.v))
    /\ UNCHANGED <<arg, signVars>>

NextBlock == ParseBlockNumber

SpecBlock == InitBlock /\ [][NextBlock]_vars

\* s is the number n written in hex: an optional sign, 0x, and digits that
\* are those of |n| up to leading zeros and letter case
DenotesNumber(s, n) ==
    LET neg == s[1] = "-"
        digits == Slice(s, IF neg THEN 3 ELSE 2)
    IN  /\ StripZeros(ToLowerCase(digits)) = NatToHex(IF n < 0 THEN 0 - n ELSE n)
        /\ (n < 0 => neg)
        /\ (n > 0 => ~neg)

-----------------------------------------------------------------------------
(* toFilterCriteria *)

\* a Criteria object: a function from the fields that are set to their values
CriteriaOf(address, topic0, topic1, topic2, topic3) ==
    LET all == [address |-> address, topic0 |-> topic0, topic1 |-> topic1,
                topic2 |-> topic2, topic3 |-> topic3]
        set == {f \in DOMAIN all : Truthy(all[f])}
    IN  [f \in set |-> all[f]]

\* the closure setCriteria of toFilterCriteria
setCriteria(address, topics) ==
    IF Truthy(topics)
    THEN CriteriaOf(address, Index(topics, 0), Index(topics, 1),
                    Index(topics, 2), Index(topics, 3))
    ELSE CriteriaOf(address, Undefined, Undefined, Undefined, Undefined)

\* a plausible slip: the address length takes precedence over the topics'
toFilterCriteria_AddressLen(args) ==
    IF /\ ~(Truthy(args.address) /\ IsArray(args.address))
       /\ ~(/\ Truthy(args.topics)
            /\ Truthy(Index(args.topics, 0))
            /\ IsArray(Index(args.topics, 0)))
    THEN <<setCriteria(args.address, args.topics)>>
    ELSE IF IsArray(args.address) \/ IsArray(args.topics)
    THEN LET len0 == 0
             len1 == IF Truthy(args.topics) THEN Length(args.topics).v ELSE len0
             len == IF Truthy(args.address) THEN Length(args.address).v ELSE len1
         IN  [i \in 1..len |->
                setCriteria(IF Truthy(args.address)
                              THEN IF IsArray(args.address)
                                     THEN Index(args.address, i - 1)
                                     ELSE args.address
                              ELSE Undefined,
                            IF Truthy(args.topics)
                              THEN Index(args.topics, i - 1)
                              ELSE Undefined)]
    ELSE <<>>

\* a plausible slip: an empty address array is not taken for a sequence
toFilterCriteria_EmptyAddress(args) ==
    IF /\ ~(/\ Truthy(args.address) /\ IsArray(args.address)
            /\ Length(args.address).v > 0)
       /\ ~(/\ Truthy(args.topics)
            /\ Truthy(Index(args.topics, 0))
            /\ IsArray(Index(args.topics, 0)))
    THEN <<setCriteria(IF IsArray(args.address) THEN Undefined ELSE args.address,
                       args.topics)>>
    ELSE IF IsArray(args.address) \/ IsArray(args.topics)
    THEN LET len0 == 0
             len1 == IF Truthy(args.address) THEN Length(args.address).v ELSE len0
             len == IF Truthy(args.topics) THEN Length(args.topics).v ELSE len1
         IN  [i \in 1..len |->
                setCriteria(IF Truthy(args.address)
                              THEN IF IsArray(args.address)
                                     THEN Index(args.address, i - 1)
                                     ELSE args.address
                              ELSE Undefined,
                            IF Truthy(args.topics)
                              THEN Index(args.topics, i - 1)
                              ELSE Undefined)]
    ELSE <<>>

toFilterCriteria(args) ==
    IF /\ ~(Truthy(args.address) /\ IsArray(args.address))
       /\ ~(/\ Truthy(args.topics)
            /\ Truthy(Index(args.topics, 0))
            /\ IsArray(Index(args.topics, 0)))
    THEN <<setCriteria(args.address, args.topics)>>
    ELSE IF IsArray(args.address) \/ IsArray(args.topics)
    THEN LET len0 == 0
             len1 == IF Truthy(args.address) THEN Length(args.address).v ELSE len0
             len == IF Truthy(args.topics) THEN Length(args.topics).v ELSE len1
         IN  [i \in 1..len |->
                setCriteria(IF Truthy(args.address)
                              THEN IF IsArray(args.address)
                                     THEN Index(args.address, i - 1)
                                     ELSE args.address
                              ELSE Undefined,
                            IF Truthy(args.topics)
                              THEN Index(args.topics, i - 1)
                              ELSE Undefined)]
    ELSE <<>>

-----------------------------------------------------------------------------
(* toFilterCriteria called on every FilterOpts of a bounded set *)

MaxAddresses == 2

MaxTopics == 2

AddrA == Str(<<"0", "x", "A">>)

AddrB == Str(<<"0", "x", "B">>)

Topic1 == Str(<<"t", "1">>)

Topic2 == Str(<<"t", "2">>)

Topic3 == Str(<<"t", "3">>)

Topic4 == Str(<<"t", "4">>)

SeqsUpTo(S, n) == UNION {[1..k -> S] : k \in 0..n}

FilterAddresses ==
    {Undefined, Str(<<>>), AddrA, AddrB}
    \cup {Arr(a) : a \in SeqsUpTo({AddrA, AddrB, Str(<<>>)}, MaxAddresses)}

\* one slot of topics: null, a topic, or a sequence of topics
TopicSlots ==
    {Null, Topic1, Arr(<<>>), Arr(<<Topic1>>), Arr(<<Topic2, Topic1>>),
     Arr(<<Null, Topic2>>), Arr(<<Topic1, Topic2, Topic3, Topic4, Topic1>>)}

FilterTopics ==
    {Undefined, Arr(<<Topic1, Topic2, Topic3, Topic4>>),
     Arr(<<Topic1, Null, Topic3, Topic4, Topic2>>)}
    \cup {Arr(t) : t \in SeqsUpTo(TopicSlots, MaxTopics)}

InitFilter ==
    /\ arg \in [address : FilterAddresses, topics : FilterTopics]
    /\ ret = NotCalled
    /\ SignIdle

ToFilterCriteria ==
    /\ pc = "idle"
    /\ ret = NotCalled
    /\ ret' = Return(toFilterCriteria(arg))
    /\ UNCHANGED <<arg, signVars>>

NextFilter == ToFilterCriteria

SpecFilter == InitFilter /\ [][NextFilter]_vars

\* x is a sequence (an array), as opposed to a scalar or an absent value
IsSeq(x) == x.t = "array"

\* field f of criteria c is present exactly when x is populated, and is x
Carries(c, f, x) ==
    /\ (f \in DOMAIN c) <=> Truthy(x)
    /\ (f \in DOMAIN c) => c[f] = x

\* C4: one entry when neither address nor topics[0] is a sequence; otherwise
\* len entries, len being topics.length when topics exists and
\* address.length otherwise, entry i carrying address[i] (or the scalar
\* address) and topic0..topic3 taken positionally from topics[i], only
\* populated fields being present
C4_FilterCriteriaShape ==
    ret # NotCalled =>
        LET a == arg.address
            tp == arg.topics
            r == ret.value
            len == IF tp # Undefined THEN Len(tp.v) ELSE Len(a.v)
        IN  /\ ret.kind = "return"
            /\ IF ~IsSeq(a) /\ ~(IsSeq(tp) /\ Len(tp.v) > 0 /\ IsSeq(tp.v[1]))
               THEN Len(r) = 1
               ELSE /\ Len(r) = len
                    /\ \A i \in 1..len :
                        /\ DOMAIN r[i] \subseteq
                             {"address", "topic0", "topic1", "topic2", "topic3"}
                        /\ Carries(r[i], "address",
                                   IF IsSeq(a)
                                     THEN IF i <= Len(a.v) THEN a.v[i] ELSE Undefined
                                     ELSE a)
                        /\ Carries(r[i], "topic0",
                                   IF tp # Undefined THEN Index(tp.v[i], 0) ELSE Undefined)
                        /\ Carries(r[i], "topic1",
                                   IF tp # Undefined THEN Index(tp.v[i], 1) ELSE Undefined)
                        /\ Carries(r[i], "topic2",
                                   IF tp # Undefined THEN Index(tp.v[i], 2) ELSE Undefined)
                        /\ Carries(r[i], "topic3",
                                   IF tp # Undefined THEN Index(tp.v[i], 3) ELSE Undefined)

\* two addresses and two topic sequences have given two entries, each
\* pairing the corresponding address and topic0
C4_Witness ==
    /\ ret # NotCalled
    /\ arg.address = Arr(<<AddrA, AddrB>>)
    /\ arg.topics = Arr(<<Arr(<<Topic1>>), Arr(<<Topic2, Topic1>>)>>)
    /\ Len(ret.value) = 2
    /\ ret.value[1].address = AddrA /\ ret.value[1].topic0 = Topic1
    /\ ret.value[2].address = AddrB /\ ret.value[2].topic0 = Topic2

\* the effective length of the claim: topics.length when topics exists,
\* address.length otherwise
EffectiveLen(a, tp) == IF tp # Undefined THEN Len(tp.v) ELSE Len(a.v)

\* C5 as stated: [{}] when address and topics are both absent, and an empty
\* list whenever a sequence is supplied and the effective length is 0, for an
\* empty address sequence and an empty topics sequence alike
C5_EmptySequenceGivesEmptyList ==
    ret # NotCalled =>
        LET a == arg.address
            tp == arg.topics
        IN  /\ (a = Undefined /\ tp = Undefined) => ret.value = << <<>> >>
            /\ ((IsSeq(a) \/ IsSeq(tp)) /\ EffectiveLen(a, tp) = 0)
                 => ret.value = <<>>

\* C5 as amended: [{}] when both are absent; an empty list when address is a
\* sequence and the effective length is 0; and when topics is an empty
\* sequence while address is not a sequence, the single entry built from
\* the address alone
C5_EmptyListOnlyForAddressSequence ==
    ret # NotCalled =>
        LET a == arg.address
            tp == arg.topics
        IN  /\ (a = Undefined /\ tp = Undefined) => ret.value = << <<>> >>
            /\ (IsSeq(a) /\ EffectiveLen(a, tp) = 0) => ret.value = <<>>
            /\ (~IsSeq(a) /\ tp = Arr(<<>>)) =>
                 /\ Len(ret.value) = 1
                 /\ DOMAIN ret.value[1] \subseteq {"address"}
                 /\ Carries(ret.value[1], "address", a)

\* an empty address sequence without topics has given the empty list
C5_Witness ==
    /\ ret # NotCalled
    /\ arg.address = Arr(<<>>)
    /\ arg.topics = Undefined
    /\ ret.value = <<>>

-----------------------------------------------------------------------------
(* the ABI codec of thor-devkit, for the type string *)

WordBytes == 32

\* the code points the model's strings use, as UTF-8 bytes in hex
Utf8 == [c \in {"0", "1", "a", "b", "x"} |->
            CASE c = "0" -> <<"3", "0">>
              [] c = "1" -> <<"3", "1">>
              [] c = "a" -> <<"6", "1">>
              [] c = "b" -> <<"6", "2">>
              [] c = "x" -> <<"7", "8">>]

RECURSIVE Utf8Encode(_)
\* the bytes of a string, in hex
Utf8Encode(s) == IF s = <<>> THEN <<>> ELSE Utf8[s[1]] \o Utf8Encode(Slice(s, 1))

RECURSIVE Utf8Decode(_)
\* the string of some bytes in hex; a byte outside the table reads as "?"
Utf8Decode(h) ==
    IF Len(h) < 2 THEN <<>>
    ELSE LET byte == ToLowerCase(SubSeq(h, 1, 2))
             known == {c \in DOMAIN Utf8 : Utf8[c] = byte}
         IN  <<IF known = {} THEN "?" ELSE CHOOSE c \in known : TRUE>>
             \o Utf8Decode(Slice(h, 2))

\* a 32-byte big-endian word holding n
Word(n) == Rep("0", 2 * WordBytes - Len(NatToHex(n))) \o NatToHex(n)

\* the number a word holds, -1 standing for a number beyond any data length
WordValue(w) ==
    IF Len(StripZeros(w)) > 6 THEN -1 ELSE HexDigitsValue(StripZeros(w))

\* the number of bytes a string of n bytes takes once padded to whole words
Padded(n) == ((n + WordBytes - 1) \div WordBytes) * WordBytes

\* abi.encodeParameter('string', s): the offset of the dynamic value, its
\* byte length, and its bytes padded with zeros to whole words
encodeParameter(s) ==
    LET bytes == Utf8Encode(s)
        n == Len(bytes) \div 2
    IN  <<"0", "x">> \o Word(WordBytes) \o Word(n) \o bytes
        \o Rep("0", 2 * (Padded(n) - n))

\* abi.decodeParameter('string', hex): the string, or a throw when hex is no
\* hex data or the data is too short for the offset and length it declares.
\* Hex data of odd length is taken to throw; no property below rests on it,
\* every odd-length input used being too short to decode in any case.
decodeParameter(hex) ==
    LET d == Slice(hex, 2)
        n == Len(d) \div 2
        word(at) == WordValue(SubSeq(d, 2 * at + 1, 2 * (at + WordBytes)))
    IN  IF ~(StartsWith(hex, <<"0", "x">>) /\ \A i \in 1..Len(d) : IsHexChar(d[i]))
          THEN Throw(<<"invalid hex">>)
        ELSE IF Len(d) % 2 = 1 THEN Throw(<<"odd length">>)
        ELSE IF n < WordBytes THEN Throw(<<"insufficient data">>)
        ELSE IF word(0) < 0 \/ word(0) + WordBytes > n
          THEN Throw(<<"insufficient data">>)
        ELSE IF word(word(0)) < 0 \/ word(0) + WordBytes + word(word(0)) > n
          THEN Throw(<<"insufficient data">>)
        ELSE Return(Str(Utf8Decode(
                SubSeq(d, 2 * (word(0) + WordBytes) + 1,
                       2 * (word(0) + WordBytes + word(word(0)))))))

-----------------------------------------------------------------------------
(* decodeRevertReason and genRevertReason *)

errSig == <<"0", "x", "0", "8", "c", "3", "7", "9", "a", "0">>

\* the body of the try block of decodeRevertReason
decodeRevertReasonTry(data) ==
    IF data.t # "string" THEN Throw(TypeError)
    ELSE IF StartsWith(data.v, errSig)
      THEN decodeParameter(<<"0", "x">> \o Slice(data.v, Len(errSig)))
    ELSE Return(Str(<<>>))

\* a plausible slip: the decoder's exception is not caught
decodeRevertReason_NoCatch(data) == decodeRevertReasonTry(data)

\* a plausible slip: the selector is sliced off without restoring the 0x
decodeRevertReason_NoPrefix(data) ==
    LET r == IF data.t # "string" THEN Throw(TypeError)
             ELSE IF StartsWith(data.v, errSig)
               THEN decodeParameter(Slice(data.v, Len(errSig)))
             ELSE Return(Str(<<>>))
    IN  IF r.kind = "throw" THEN Return(Str(<<>>)) ELSE r

decodeRevertReason(data) ==
    LET r == decodeRevertReasonTry(data)
    IN  IF r.kind = "throw" THEN Return(Str(<<>>)) ELSE r

\* a || b
OrElse(a, b) == IF Truthy(a) THEN a ELSE b

\* genRevertReason: the output with revertReason set, and the completion
genRevertReason(output) ==
    LET revertReason == decodeRevertReason(output.data).value
        out == [output EXCEPT !.revertReason = revertReason]
        errMsg0 == OrElse(out.revertReason, OrElse(out.vmError, out.data))
        errMsg1 == IF ~StartsWith(errMsg0.v, <<"0", "x">>)
                     THEN encodeParameter(errMsg0.v)
                     ELSE errMsg0.v
        errMsg2 == IF ~StartsWith(errMsg1, errSig)
                     THEN errSig \o Slice(errMsg1, 2)
                     ELSE errMsg1
    IN  [output |-> out,
         completion |-> IF errMsg0.t # "string" THEN Throw(TypeError)
                        ELSE Return(Str(errMsg2))]

-----------------------------------------------------------------------------
(* decodeRevertReason and genRevertReason called on bounded sets of inputs *)

MaxMsgLen == 2

MsgAlphabet == {"0", "x", "a"}

Messages == StringsUpTo(MsgAlphabet, MaxMsgLen)

\* the selector followed by the ABI encoding of s without its 0x
RevertData(s) == errSig \o Slice(encodeParameter(s), 2)

\* s without its last n characters
DropLast(s, n) == SubSeq(s, 1, Len(s) - n)

OtherSig == <<"0", "x", "0", "8", "c", "3", "7", "9", "a", "1">>

DecodeInputs ==
    {Undefined, Null, Str(<<>>), Str(<<"0", "x">>), Str(errSig),
     Str(<<"f", "o", "o">>), Str(errSig \o <<"z", "z">>)}
    \cup {Str(RevertData(m)) : m \in Messages}
    \cup {Str(errSig \o encodeParameter(m)) : m \in Messages}
    \cup {Str(OtherSig \o Slice(encodeParameter(m), 2)) : m \in Messages}
    \cup {Str(DropLast(RevertData(m), n)) :
            m \in Messages, n \in {2, 2 * WordBytes, 4 * WordBytes, 5 * WordBytes}}

OutputData ==
    {<<"0", "x">>, <<"0", "x", "d", "e", "a", "d">>, errSig,
     DropLast(RevertData(<<"a">>), 2)}
    \cup {RevertData(m) : m \in Messages}

VmErrors == {Undefined, Str(<<>>)} \cup {Str(m) : m \in Messages}

GenInputs ==
    {Obj([data |-> Str(d), vmError |-> e, revertReason |-> Undefined]) :
        d \in OutputData, e \in VmErrors}

InitRevert == arg \in DecodeInputs \cup GenInputs /\ ret = NotCalled /\ SignIdle

DecodeRevertReason ==
    /\ pc = "idle"
    /\ ret = NotCalled
    /\ arg.t # "object"
    /\ ret' = decodeRevertReason(arg)
    /\ UNCHANGED <<arg, signVars>>

GenRevertReason ==
    /\ pc = "idle"
    /\ ret = NotCalled
    /\ arg.t = "object"
    /\ arg' = Obj(genRevertReason(arg.v).output)
    /\ ret' = genRevertReason(arg.v).completion
    /\ UNCHANGED signVars

NextRevert == DecodeRevertReason \/ GenRevertReason

SpecRevert == InitRevert /\ [][NextRevert]_vars

\* C7 as stated: decodeRevertReason(selector + encodeParameter('string', s))
\* is s, encodeParameter returning a hex string (which starts with 0x)
C7_RoundTripAsStated ==
    \A s \in Messages :
        (ret # NotCalled /\ arg = Str(errSig \o encodeParameter(s)))
            => ret = Return(Str(s))

\* C7 as amended: decodeRevertReason(selector + encodeParameter('string',
\* s).slice(2)) is s, the 0x of the encoding being dropped
C7_RoundTripWithoutPrefix ==
    \A s \in Messages :
        (ret # NotCalled /\ arg = Str(errSig \o Slice(encodeParameter(s), 2)))
            => ret = Return(Str(s))

\* the revert data of a message of MaxMsgLen characters has been decoded
C7_Witness ==
    /\ ret # NotCalled
    /\ \E s \in Messages :
        /\ Len(s) = MaxMsgLen
        /\ arg = Str(errSig \o Slice(encodeParameter(s), 2))
        /\ ret = Return(Str(s))

\* C8: decodeRevertReason never throws; it returns the empty string when
\* the input does not start with the selector and when the ABI decoding of
\* the rest fails
C8_DecodeNeverThrows ==
    (ret # NotCalled /\ arg.t # "object") =>
        /\ ret.kind = "return"
        /\ ret.value.t = "string"
        /\ (arg.t # "string" \/ ~StartsWith(arg.v, errSig))
             => ret.value.v = <<>>
        /\ (/\ arg.t = "string"
            /\ StartsWith(arg.v, errSig)
            /\ decodeParameter(<<"0", "x">> \o Slice(arg.v, 10)).kind = "throw")
             => ret.value.v = <<>>

\* a payload that has the selector and is truncated has been decoded to ""
C8_Witness ==
    /\ ret = Return(Str(<<>>))
    /\ arg = Str(DropLast(RevertData(<<"a", "x">>), 2 * WordBytes))

\* the message genRevertReason selects: the decoded revert reason if it is
\* not empty, else vmError if it is not empty, else none
SelectedMessage(output) ==
    OrElse(decodeRevertReason(output.data).value, OrElse(output.vmError, Str(<<>>)))

\* C10: when the selected message m is not empty, even if it starts with
\* 0x, genRevertReason returns a string that starts with the selector and
\* that decodeRevertReason decodes to m
C10_GenThenDecodeGivesMessage ==
    (ret # NotCalled /\ arg.t = "object" /\ SelectedMessage(arg.v).v # <<>>) =>
        /\ ret.kind = "return"
        /\ StartsWith(ret.value.v, errSig)
        /\ decodeRevertReason(ret.value) = Return(SelectedMessage(arg.v))

-----------------------------------------------------------------------------
(* getErrMsg *)

\* err.message: a TypeError on undefined and null, the field of an object,
\* undefined on any other value
GetMessage(err) ==
    IF err.t \in {"undefined", "null"} THEN Throw(TypeError)
    ELSE IF err.t = "object" /\ "message" \in DOMAIN err.v
      THEN Return(err.v.message)
    ELSE Return(Undefined)

getErrMsg(err) ==
    IF err.t = "string" THEN Return(err)
    ELSE IF GetMessage(err).kind = "throw" THEN GetMessage(err)
    ELSE IF Truthy(GetMessage(err).value) THEN Return(GetMessage(err).value)
    ELSE Return(Str(<<>>))

-----------------------------------------------------------------------------
(* getErrMsg called on every value of a bounded set *)

MaxErrLen == 3

ErrAlphabet == {"b", "o", "m"}

ErrStrings == {Str(m) : m \in StringsUpTo(ErrAlphabet, MaxErrLen)}

ErrInputs ==
    ErrStrings
    \cup {Obj([message |-> m]) : m \in ErrStrings \cup {Undefined, Num(5)}}
    \cup {Obj([message |-> m, code |-> Num(-32602)]) : m \in ErrStrings}
    \cup {Obj([code |-> Num(1)]), Obj(<<>>), Arr(<<>>), Num(0), Num(7),
          Null, Undefined}

InitErr == arg \in ErrInputs /\ ret = NotCalled /\ SignIdle

GetErrMsg ==
    /\ pc = "idle"
    /\ ret = NotCalled
    /\ ret' = getErrMsg(arg)
    /\ UNCHANGED <<arg, signVars>>

NextErr == GetErrMsg

SpecErr == InitErr /\ [][NextErr]_vars

\* C9: getErrMsg never throws whatever err is, null and undefined included;
\* it returns err when err is a string, else err.message when present, else
\* the empty string
C9_GetErrMsgNeverThrows ==
    ret # NotCalled =>
        /\ ret.kind = "return"
        /\ IF arg.t = "string" THEN ret.value = arg
           ELSE IF /\ arg.t = "object"
                   /\ "message" \in DOMAIN arg.v
                   /\ Truthy(arg.v.message)
             THEN ret.value = arg.v.message
           ELSE ret.value = Str(<<>>)

-----------------------------------------------------------------------------
(* signTransaction: an async function, one action per run between awaits *)

\* txParams
expiration == 18

gasPriceCoef == 0

EmptyWallet == Str(<<"E", "m", "p", "t", "y", " ", "w", "a", "l", "l", "e", "t">>)

\* the clauses array built from ethTx
Clauses(e) ==
    <<[to |-> IF Truthy(e.to) THEN Str(ToLowerCase(e.to.v)) ELSE Null,
       value |-> IF Truthy(e.value) THEN e.value ELSE Str(<<"0", "x", "0">>),
       data |-> IF Truthy(e.data) THEN e.data ELSE Str(<<"0", "x">>)]>>

EstimateGasRequest(e) == [method |-> "eth_estimateGas", params |-> <<e>>]

GetBlockRequest == [method |-> "eth_getBlockByNumber", params |-> <<"latest">>]

\* the transaction body assembled once gas and the head block are known
TxBody(e, tag, g, b, nonce) ==
    [chainTag |-> tag,
     blockRef |-> Slice2(b.hash, 0, 18),
     expiration |-> expiration,
     clauses |-> Clauses(e),
     gasPriceCoef |-> gasPriceCoef,
     gas |-> g,
     dependsOn |-> Null,
     nonce |-> nonce]

\* tx.signingHash(): the digest, a function of the body alone
SigningHash(body) == [hashOf |-> body]

\* '0x' + tx.encode().toString('hex'): the body and the signature
Encode(t) == [raw |-> t]

\* what the provider, the signers and randomBytes may produce
GasEstimates == {Num(21000), Num(53000)}

ProviderErrors == {Str(<<"E", "1">>), Obj([message |-> Str(<<"E", "2">>)])}

SignerErrors == {Str(<<"E", "3">>)}

Blocks ==
    {[hash |-> <<"0", "x">> \o Rep("0", 7) \o <<"1">> \o Rep("a", 2 * WordBytes - 8)],
     [hash |-> <<"0", "x">> \o Rep("0", 7) \o <<"2">> \o Rep("B", 2 * WordBytes - 8)]}

Nonces == {<<"0", "x">> \o Rep("0", 16), <<"0", "x">> \o Rep("f", 16)}

\* a plausible slip: the empty wallet is not checked before the requests
SignTransaction_NoWalletCheck ==
    /\ pc = "start"
    /\ IF Truthy(ethTx.gas)
         THEN /\ gas' = ethTx.gas
              /\ requests' = Append(requests, GetBlockRequest)
              /\ pc' = "getBlock"
              /\ UNCHANGED settled
       ELSE /\ requests' = Append(requests, EstimateGasRequest(ethTx))
            /\ pc' = "estimateGas"
            /\ UNCHANGED <<settled, gas>>
    /\ UNCHANGED <<arg, ret, ethTx, wallet, chainTag, signCalls, best, tx,
                   responses>>

\* the run from the call to the first await, or to the rejection
SignTransaction ==
    /\ pc = "start"
    /\ IF Len(wallet) = 0
         THEN /\ settled' = Throw(EmptyWallet)
              /\ pc' = "done"
              /\ UNCHANGED <<requests, gas>>
       ELSE IF Truthy(ethTx.gas)
         THEN /\ gas' = ethTx.gas
              /\ requests' = Append(requests, GetBlockRequest)
              /\ pc' = "getBlock"
              /\ UNCHANGED settled
       ELSE /\ requests' = Append(requests, EstimateGasRequest(ethTx))
            /\ pc' = "estimateGas"
            /\ UNCHANGED <<settled, gas>>
    /\ UNCHANGED <<arg, ret, ethTx, wallet, chainTag, signCalls, best, tx,
                   responses>>

\* eth_estimateGas resolves: gas is set and eth_getBlockByNumber is issued
EstimateGasResolved ==
    /\ pc = "estimateGas"
    /\ \E g \in GasEstimates :
        /\ responses' = Append(responses, [method |-> "eth_estimateGas",
                                           kind |-> "resolved", value |-> g])
        /\ gas' = g
    /\ requests' = Append(requests, GetBlockRequest)
    /\ pc' = "getBlock"
    /\ UNCHANGED <<arg, ret, ethTx, wallet, chainTag, signCalls, best, tx,
                   settled>>

\* eth_estimateGas rejects: the await throws and the promise is rejected
EstimateGasRejected ==
    /\ pc = "estimateGas"
    /\ \E e \in ProviderErrors :
        /\ responses' = Append(responses, [method |-> "eth_estimateGas",
                                           kind |-> "rejected", error |-> e])
        /\ settled' = Throw(e)
    /\ pc' = "done"
    /\ UNCHANGED <<arg, ret, ethTx, wallet, chainTag, requests, signCalls,
                   gas, best, tx>>

\* a plausible slip: the digest is handed to the last signer of the list
GetBlockResolved_LastSigner ==
    /\ pc = "getBlock"
    /\ \E b \in Blocks, nonce \in Nonces :
        /\ responses' = Append(responses, [method |-> "eth_getBlockByNumber",
                                           kind |-> "resolved", value |-> b])
        /\ best' = b
        /\ tx' = [body |-> TxBody(ethTx, chainTag, gas, b, nonce),
                  signature |-> Undefined]
        /\ IF Len(wallet) = 0
             THEN /\ settled' = Throw(Str(TypeError))
                  /\ pc' = "done"
                  /\ UNCHANGED signCalls
           ELSE /\ signCalls' = Append(signCalls,
                        [index |-> Len(wallet) - 1, signer |-> wallet[Len(wallet)],
                         digest |-> SigningHash(TxBody(ethTx, chainTag, gas, b, nonce))])
                /\ pc' = "sign"
                /\ UNCHANGED settled
    /\ UNCHANGED <<arg, ret, ethTx, wallet, chainTag, requests, gas>>

\* eth_getBlockByNumber resolves: the transaction is built and the digest
\* is handed to wallet.list[0]
GetBlockResolved ==
    /\ pc = "getBlock"
    /\ \E b \in Blocks, nonce \in Nonces :
        /\ responses' = Append(responses, [method |-> "eth_getBlockByNumber",
                                           kind |-> "resolved", value |-> b])
        /\ best' = b
        /\ tx' = [body |-> TxBody(ethTx, chainTag, gas, b, nonce),
                  signature |-> Undefined]
        /\ IF Len(wallet) = 0
             THEN /\ settled' = Throw(Str(TypeError))
                  /\ pc' = "done"
                  /\ UNCHANGED signCalls
           ELSE /\ signCalls' = Append(signCalls,
                        [index |-> 0, signer |-> wallet[1],
                         digest |-> SigningHash(TxBody(ethTx, chainTag, gas, b, nonce))])
                /\ pc' = "sign"
                /\ UNCHANGED settled
    /\ UNCHANGED <<arg, ret, ethTx, wallet, chainTag, requests, gas>>

\* a plausible slip: a rejected eth_getBlockByNumber is issued again
GetBlockRejected_Retry ==
    /\ pc = "getBlock"
    /\ \E e \in ProviderErrors :
        responses' = Append(responses, [method |-> "eth_getBlockByNumber",
                                        kind |-> "rejected", error |-> e])
    /\ requests' = Append(requests, GetBlockRequest)
    /\ UNCHANGED <<arg, ret, pc, ethTx, wallet, chainTag, signCalls, gas,
                   best, tx, settled>>

\* eth_getBlockByNumber rejects
GetBlockRejected ==
    /\ pc = "getBlock"
    /\ \E e \in ProviderErrors :
        /\ responses' = Append(responses, [method |-> "eth_getBlockByNumber",
                                           kind |-> "rejected", error |-> e])
        /\ settled' = Throw(e)
    /\ pc' = "done"
    /\ UNCHANGED <<arg, ret, ethTx, wallet, chainTag, requests, signCalls,
                   gas, best, tx>>

\* the signer resolves: the signature is attached and the encoding returned
SignResolved ==
    /\ pc = "sign"
    /\ tx' = [tx EXCEPT !.signature =
                [by |-> signCalls[Len(signCalls)].signer,
                 over |-> signCalls[Len(signCalls)].digest]]
    /\ settled' = Return(Encode(tx'))
    /\ pc' = "done"
    /\ UNCHANGED <<arg, ret, ethTx, wallet, chainTag, requests, signCalls,
                   gas, best, responses>>

\* the signer rejects
SignRejected ==
    /\ pc = "sign"
    /\ \E e \in SignerErrors : settled' = Throw(e)
    /\ pc' = "done"
    /\ UNCHANGED <<arg, ret, ethTx, wallet, chainTag, requests, signCalls,
                   gas, best, tx, responses>>

-----------------------------------------------------------------------------
(* signTransaction called once on every argument of a bounded set *)

MaxSigners == 2

Signers == {"s1", "s2", "s3"}

\* wallet.list: up to MaxSigners distinct signers, in any order
Wallets ==
    {w \in SeqsUpTo(Signers, MaxSigners) :
        \A i, j \in 1..Len(w) : i # j => w[i] # w[j]}

TxObjs ==
    [to : {Undefined, Str(<<"0", "x", "A", "b">>)},
     value : {Undefined, Str(<<"0", "x", "1">>)},
     data : {Undefined, Str(<<"0", "x", "a", "9">>)},
     gas : {Undefined, Num(0), Str(<<>>), Num(30000), Str(<<"0", "x", "5", "2", "0", "8">>)}]

ChainTags == {39, 74}

InitSign ==
    /\ arg = Undefined
    /\ ret = NotCalled
    /\ pc = "start"
    /\ ethTx \in TxObjs
    /\ wallet \in Wallets
    /\ chainTag \in ChainTags
    /\ requests = <<>>
    /\ signCalls = <<>>
    /\ gas = Undefined
    /\ best = Undefined
    /\ tx = Undefined
    /\ responses = <<>>
    /\ settled = NotCalled

NextSign ==
    \/ SignTransaction
    \/ EstimateGasResolved
    \/ EstimateGasRejected
    \/ GetBlockResolved
    \/ GetBlockRejected
    \/ SignResolved
    \/ SignRejected

SpecSign == InitSign /\ [][NextSign]_vars

\* C1: with an empty wallet signTransaction rejects with exactly the
\* string 'Empty wallet', before any provider request is issued and without
\* any signer being invoked
C1_EmptyWalletRejects ==
    (Len(wallet) = 0 /\ pc \notin {"idle", "start"}) =>
        /\ pc = "done"
        /\ settled = Throw(EmptyWallet)
        /\ requests = <<>>
        /\ responses = <<>>
        /\ signCalls = <<>>

\* a call with an empty wallet and a full TxObj has been rejected
C1_Witness ==
    /\ pc = "done"
    /\ wallet = <<>>
    /\ Truthy(ethTx.gas) /\ Truthy(ethTx.to)
    /\ settled = Throw(EmptyWallet)

\* C2: once the provider has rejected a request, that rejection is its last
\* answer, signTransaction is rejected with the same error, the rejected
\* request is the last one issued, no request was issued twice, and no
\* signer has been invoked
C2_ProviderRejectionPropagates ==
    (pc # "idle" /\ Len(wallet) > 0) =>
        \A i \in 1..Len(responses) :
            responses[i].kind = "rejected" =>
                /\ i = Len(responses)
                /\ pc = "done"
                /\ settled = Throw(responses[i].error)
                /\ Len(requests) = i
                /\ requests[i].method = responses[i].method
                /\ \A j, k \in 1..Len(requests) :
                     j # k => requests[j].method # requests[k].method
                /\ signCalls = <<>>

\* eth_getBlockByNumber has been rejected after eth_estimateGas resolved
C2_Witness ==
    /\ pc = "done"
    /\ Len(wallet) > 0
    /\ Len(responses) = 2
    /\ responses[1].kind = "resolved"
    /\ responses[2].kind = "rejected"
    /\ settled = Throw(responses[2].error)

\* the order of requests and the signing of C3, `supplied` telling whether
\* ethTx.gas counts as supplied
GasAndOrder(supplied) ==
    (pc \notin {"idle", "start"} /\ Len(wallet) > 0) =>
        /\ requests \in
             IF supplied THEN {<<GetBlockRequest>>}
             ELSE {<<EstimateGasRequest(ethTx)>>,
                   <<EstimateGasRequest(ethTx), GetBlockRequest>>}
        /\ Len(requests) = 2 =>
             /\ Len(responses) >= 1
             /\ responses[1].method = "eth_estimateGas"
             /\ responses[1].kind = "resolved"
        /\ tx # Undefined =>
             tx.body.gas = IF supplied THEN ethTx.gas ELSE responses[1].value
        /\ signCalls # <<>> =>
             /\ Len(signCalls) = 1
             /\ signCalls[1].index = 0
             /\ signCalls[1].signer = wallet[1]
             /\ Len(responses) = Len(requests)
             /\ \A i \in 1..Len(responses) : responses[i].kind = "resolved"
             /\ requests[Len(requests)] = GetBlockRequest
        /\ (/\ Len(responses) = Len(requests)
            /\ \A i \in 1..Len(responses) : responses[i].kind = "resolved")
             => Len(signCalls) = 1

\* C3 as stated: the gas of the body is ethTx.gas if it is supplied and else
\* the answer to exactly one eth_estimateGas carrying ethTx, issued only
\* when ethTx.gas is not supplied and answered before the single
\* eth_getBlockByNumber is issued; wallet.list[0] alone signs, once, after
\* all answers have arrived
C3_GasSuppliedOrEstimated == GasAndOrder(ethTx.gas # Undefined)

\* C3 as amended: the same, ethTx.gas counting as supplied only when it is
\* truthy (neither undefined, nor 0, nor the empty string)
C3_GasTruthyOrEstimated == GasAndOrder(Truthy(ethTx.gas))

\* with two signers in the wallet and no gas given, the estimate has become
\* the gas of the body and the first signer has signed
C3_Witness ==
    /\ pc = "done"
    /\ Len(wallet) = 2
    /\ ethTx.gas = Undefined
    /\ settled.kind = "return"
    /\ tx.body.gas = responses[1].value
    /\ tx.signature.by = wallet[1]

=============================================================================
